---- MODULE Spec2Model ----
(***************************************************************************)
(* A model of neuro-extras' data transfer core: the remote copier and the  *)
(* job it follows (neuro_extras/data/remote.py), the image-build job       *)
(* follower (neuro_extras/image.py) and the archive subsystem              *)
(* (neuro_extras/data/archive.py).                                         *)
(***************************************************************************)
EXTENDS Integers, Sequences, FiniteSets, TLC

VARIABLES
    \* ---- RemoteCopier (remote.py) ----
    cp_pc,            \* position of the copier: new / rejected / CREATED / SUBMITTED / POLLING / COMPLETED / FAILED
    source_type,      \* Copier.source_type
    destination_type, \* Copier.destination_type
    job_config,       \* RemoteCopier.job_config
    cjob,             \* the scheduler's record of the copy job
    submissions,      \* the job configs the scheduler has received, in order
    at_pc,            \* position inside _attach_job_stdout
    cp_obs,           \* the job status last observed by the copier
    cp_attached,      \* whether the copier has attached to the log stream or polled the status
    cp_exit,          \* the exit code _attach_job_stdout returned
    cp_result,        \* what perform_copy returned
    cp_error,         \* the error the copier raised
    \* ---- _build_image (image.py) ----
    bi_pc,            \* position of _build_image
    bjob,             \* the scheduler's record of the builder job
    bi_job,           \* the local variable `job`: the last snapshot fetched
    bi_echoed,        \* log chunks echoed so far
    bi_exit,          \* the process exit status (sys.exit), NoCode while running
    \* ---- archive subsystem (archive.py) ----
    ar_pc,            \* position of the archive operation: off / idle / tool / mv / done / error
    ar_req,           \* the call: entry point or strategy, operation, source, destination
    ar_mgr,           \* the manager _get_archive_manager selected
    ar_log,           \* what the operation did, in order
    ar_cmd,           \* the external command running
    ar_tmp,           \* whether gzip's in-place output lies next to the source
    ar_ret,           \* the resource returned
    ar_err,           \* the error raised
    \* ---- URL-to-volume mapping and the worker command (remote.py) ----
    mp_pc,            \* position of the mapping: off / idle / done
    mp_call,          \* the function applied and its arguments
    mp_out            \* what it returned

copier_vars == <<cp_pc, source_type, destination_type, job_config, cjob, submissions,
                 at_pc, cp_obs, cp_attached, cp_exit, cp_result, cp_error>>
image_vars == <<bi_pc, bjob, bi_job, bi_echoed, bi_exit>>
archive_vars == <<ar_pc, ar_req, ar_mgr, ar_log, ar_cmd, ar_tmp, ar_ret, ar_err>>
map_vars == <<mp_pc, mp_call, mp_out>>
vars == <<copier_vars, image_vars, archive_vars, map_vars>>

None == "none"
\* Python's None where the program holds an exit code, an error or a URL.
NoCode == 0 - 1
NoError == [kind |-> None, code |-> NoCode]
NoUrl == [scheme |-> None]
NoConfig == [pass_config |-> FALSE]

(***************************************************************************)
(* Bounds of the model.                                                    *)
(***************************************************************************)
\* The worker's exit statuses are 0..MaxExit.
MaxExit == 2
\* The log stream carries at most MaxChunks non-empty chunks.
MaxChunks == 2
\* perform_copy is called at most MaxCalls times on one copier.
MaxCalls == 2

(***************************************************************************)
(* Program constants.                                                      *)
(***************************************************************************)
EX_OK == 0
EX_PLATFORMERROR == 81

(***************************************************************************)
(* The external scheduler: PENDING -> RUNNING -> {SUCCEEDED, FAILED,       *)
(* CANCELLED}.  A job record holds the fields the program reads.           *)
(***************************************************************************)
Terminal == {"SUCCEEDED", "FAILED", "CANCELLED"}
JobStatus == {"PENDING", "RUNNING"} \cup Terminal

NoJob == [status |-> None, exit_code |-> NoCode]
NewJob == [status |-> "PENDING", exit_code |-> NoCode]

\* The job's container starts.
JobStarted(j) == [j EXCEPT !.status = "RUNNING"]
\* The worker process exits with status e: zero is SUCCEEDED, non-zero FAILED.
JobExited(j, e) ==
    IF e = 0 THEN [status |-> "SUCCEEDED", exit_code |-> 0]
             ELSE [status |-> "FAILED", exit_code |-> e]
\* The job fails without the scheduler recording an exit code.
JobCollapsed(j) == [status |-> "FAILED", exit_code |-> NoCode]
\* The job is cancelled.
JobCancelled(j) == [j EXCEPT !.status = "CANCELLED"]

(***************************************************************************)
(* UrlType (data/common.py).  A value is a set of flags: a URL classifies  *)
(* to one flag, PLATFORM is the family of the platform's own stores.       *)
(***************************************************************************)
STORAGE == {"STORAGE"}
DISK == {"DISK"}
CLOUD == {"CLOUD"}
LOCAL_OR_OTHER == {"OTHER"}
PLATFORM == STORAGE \cup DISK

Schemes == {"storage", "disk", "gs", "s3", "file"}

\* UrlType.get_type: a pure function of the URL's scheme, defaulting to OTHER.
UrlType_get_type(url) ==
    CASE url.scheme = "storage" -> STORAGE
      [] url.scheme = "disk" -> DISK
      [] url.scheme \in {"gs", "s3"} -> CLOUD
      [] OTHER -> LOCAL_OR_OTHER

\* Equality of a classified type with a type or a family: membership.
UrlTypeEq(t, family) == t \cap family # {}

Urls == [scheme : Schemes]

(***************************************************************************)
(* RemoteJobConfig.create: the job specification of one transfer.          *)
(***************************************************************************)
RemoteJobConfig_create(source, destination, compress, extract) ==
    [source |-> source, destination |-> destination,
     compress |-> compress, extract |-> extract, pass_config |-> TRUE]

(***************************************************************************)
(* RemoteCopier._ensure_can_execute: TRUE when the route is accepted.      *)
(***************************************************************************)
\* A faulty variant: only platform -> cloud is accepted.
EnsureOneWay(st, dt) == UrlTypeEq(st, PLATFORM) /\ UrlTypeEq(dt, CLOUD)

_ensure_can_execute(st, dt) ==
    \/ UrlTypeEq(st, PLATFORM) /\ UrlTypeEq(dt, CLOUD)
    \/ UrlTypeEq(st, CLOUD) /\ UrlTypeEq(dt, PLATFORM)

CopierInit ==
    /\ cp_pc = "new"
    /\ source_type = {}
    /\ destination_type = {}
    /\ job_config = NoConfig
    /\ cjob = NoJob
    /\ submissions = <<>>
    /\ at_pc = None
    /\ cp_obs = None
    /\ cp_attached = FALSE
    /\ cp_exit = NoCode
    /\ cp_result = NoUrl
    /\ cp_error = NoError

NoResource == [has_name |-> FALSE, is_dir |-> FALSE, suffixes |-> <<"none">>]

NoArchiveError == [kind |-> None, extensions |-> {}]

\* No archive operation is run.
ArchiveIdle ==
    /\ ar_pc = "off"
    /\ ar_req = [via |-> None, op |-> None, source |-> NoResource, destination |-> NoResource]
    /\ ar_mgr = None
    /\ ar_log = <<>>
    /\ ar_cmd = None
    /\ ar_tmp = FALSE
    /\ ar_ret = NoResource
    /\ ar_err = NoArchiveError

\* No copier is constructed in this run.
CopierIdle ==
    /\ cp_pc = "off"
    /\ source_type = {}
    /\ destination_type = {}
    /\ job_config = NoConfig
    /\ cjob = NoJob
    /\ submissions = <<>>
    /\ at_pc = None
    /\ cp_obs = None
    /\ cp_attached = FALSE
    /\ cp_exit = NoCode
    /\ cp_result = NoUrl
    /\ cp_error = NoError

\* No mapping is computed.
NoCall == [fn |-> None]
NoOutput == [new_url |-> <<>>, volumes |-> <<>>]

MapIdle ==
    /\ mp_pc = "off"
    /\ mp_call = NoCall
    /\ mp_out = NoOutput

\* No image build is run.
ImageIdle ==
    /\ bi_pc = "off"
    /\ bjob = NoJob
    /\ bi_job = NoJob
    /\ bi_echoed = 0
    /\ bi_exit = NoCode

\* RemoteCopier.__init__: Copier.__init__ classifies both URLs and checks
\* the route; then the job config is built.
Construct(source, destination, compress, extract) ==
    /\ cp_pc = "new"
    /\ source_type' = UrlType_get_type(source)
    /\ destination_type' = UrlType_get_type(destination)
    /\ IF _ensure_can_execute(UrlType_get_type(source), UrlType_get_type(destination))
       THEN /\ job_config' = RemoteJobConfig_create(source, destination, compress, extract)
            /\ cp_pc' = "CREATED"
            /\ cp_error' = cp_error
       ELSE /\ cp_error' = [kind |-> "ValueError", code |-> NoCode]
            /\ cp_pc' = "rejected"
            /\ job_config' = job_config
    /\ UNCHANGED <<cjob, submissions, at_pc, cp_obs, cp_attached, cp_exit, cp_result>>
    /\ UNCHANGED <<image_vars, archive_vars, map_vars>>

(***************************************************************************)
(* RemoteCopier.perform_copy.  The scheduler is taken to accept the        *)
(* submission.                                                             *)
(***************************************************************************)
\* A faulty variant: the job config is handed to the scheduler twice.
SubmitTwice ==
    /\ cp_pc = "CREATED"
    /\ submissions' = Append(Append(submissions, job_config), job_config)
    /\ cjob' = NewJob
    /\ cp_obs' = "PENDING"
    /\ cp_pc' = "SUBMITTED"
    /\ UNCHANGED <<source_type, destination_type, job_config, at_pc, cp_attached,
                   cp_exit, cp_result, cp_error>>
    /\ UNCHANGED <<image_vars, archive_vars, map_vars>>

\* jobs.start: the job config is handed to the scheduler, which returns a
\* PENDING job.
Submit ==
    /\ cp_pc = "CREATED"
    /\ submissions' = Append(submissions, job_config)
    /\ cjob' = NewJob
    /\ cp_obs' = "PENDING"
    /\ cp_pc' = "SUBMITTED"
    /\ UNCHANGED <<source_type, destination_type, job_config, at_pc, cp_attached,
                   cp_exit, cp_result, cp_error>>
    /\ UNCHANGED <<image_vars, archive_vars, map_vars>>

\* A faulty variant: the job is followed without having been submitted.
AttachWithoutSubmit ==
    /\ cp_pc \in {"CREATED", "SUBMITTED"}
    /\ cp_pc' = "POLLING"
    /\ at_pc' = "poll"
    /\ UNCHANGED <<source_type, destination_type, job_config, cjob, submissions, cp_obs,
                   cp_attached, cp_exit, cp_result, cp_error>>
    /\ UNCHANGED <<image_vars, archive_vars, map_vars>>

\* perform_copy calls _attach_job_stdout(job, client, name="copy").
Attach ==
    /\ cp_pc = "SUBMITTED"
    /\ cp_pc' = "POLLING"
    /\ at_pc' = "poll"
    /\ UNCHANGED <<source_type, destination_type, job_config, cjob, submissions, cp_obs,
                   cp_attached, cp_exit, cp_result, cp_error>>
    /\ UNCHANGED <<image_vars, archive_vars, map_vars>>

\* _attach_job_stdout (common.py): while the job is PENDING, fetch its status.
AT_Poll ==
    /\ cp_pc = "POLLING" /\ at_pc = "poll"
    /\ cp_obs = "PENDING"
    /\ cp_obs' = cjob.status
    /\ cp_attached' = TRUE
    /\ UNCHANGED <<cp_pc, source_type, destination_type, job_config, cjob, submissions,
                   at_pc, cp_exit, cp_result, cp_error>>
    /\ UNCHANGED <<image_vars, archive_vars, map_vars>>

\* _attach_job_stdout: the job has left PENDING; attach to its log stream.
AT_Monitor ==
    /\ cp_pc = "POLLING" /\ at_pc = "poll"
    /\ cp_obs # "PENDING"
    /\ at_pc' = "monitor"
    /\ cp_attached' = TRUE
    /\ UNCHANGED <<cp_pc, source_type, destination_type, job_config, cjob, submissions,
                   cp_obs, cp_exit, cp_result, cp_error>>
    /\ UNCHANGED <<image_vars, archive_vars, map_vars>>

\* _attach_job_stdout: the log stream ends (or yields an empty chunk).
AT_MonitorEnd ==
    /\ cp_pc = "POLLING" /\ at_pc = "monitor"
    /\ at_pc' = "status"
    /\ UNCHANGED <<cp_pc, source_type, destination_type, job_config, cjob, submissions,
                   cp_obs, cp_attached, cp_exit, cp_result, cp_error>>
    /\ UNCHANGED <<image_vars, archive_vars, map_vars>>

\* The exit code _attach_job_stdout reports for a terminal job.
AttachExitCode(j) ==
    CASE j.status = "SUCCEEDED" -> EX_OK
      [] j.status = "FAILED" /\ j.exit_code # NoCode -> j.exit_code
      [] OTHER -> EX_PLATFORMERROR

\* perform_copy after _attach_job_stdout returned exit_code: the caller's
\* position, the value returned and the error raised.
\* A faulty variant: the error carries a fixed code.
OutcomeDropsCode(exit_code, destination) ==
    IF exit_code = EX_OK
    THEN [pc |-> "COMPLETED", result |-> destination, error |-> NoError]
    ELSE [pc |-> "FAILED", result |-> NoUrl,
          error |-> [kind |-> "RuntimeError", code |-> 1]]

perform_copy_outcome(exit_code, destination) ==
    IF exit_code = EX_OK
    THEN [pc |-> "COMPLETED", result |-> destination, error |-> NoError]
    ELSE [pc |-> "FAILED", result |-> NoUrl,
          error |-> [kind |-> "RuntimeError", code |-> exit_code]]

\* _attach_job_stdout: the status is read again; a job not yet terminal is
\* followed further, a terminal one ends the call and perform_copy goes on.
AT_Status ==
    /\ cp_pc = "POLLING" /\ at_pc = "status"
    /\ cp_obs' = cjob.status
    /\ IF cjob.status \in Terminal
       THEN LET out == perform_copy_outcome(AttachExitCode(cjob), job_config.destination)
            IN  /\ at_pc' = "returned"
                /\ cp_exit' = AttachExitCode(cjob)
                /\ cp_pc' = out.pc
                /\ cp_result' = out.result
                /\ cp_error' = out.error
       ELSE /\ at_pc' = "monitor"
            /\ UNCHANGED <<cp_exit, cp_pc, cp_result, cp_error>>
    /\ UNCHANGED <<source_type, destination_type, job_config, cjob, submissions, cp_attached>>
    /\ UNCHANGED <<image_vars, archive_vars, map_vars>>

(***************************************************************************)
(* The scheduler's steps on the copy job.                                  *)
(***************************************************************************)
CJobStart ==
    /\ cjob.status = "PENDING"
    /\ cjob' = JobStarted(cjob)
    /\ UNCHANGED <<cp_pc, source_type, destination_type, job_config, submissions, at_pc,
                   cp_obs, cp_attached, cp_exit, cp_result, cp_error>>
    /\ UNCHANGED <<image_vars, archive_vars, map_vars>>

CJobExit(e) ==
    /\ cjob.status = "RUNNING"
    /\ cjob' = JobExited(cjob, e)
    /\ UNCHANGED <<cp_pc, source_type, destination_type, job_config, submissions, at_pc,
                   cp_obs, cp_attached, cp_exit, cp_result, cp_error>>
    /\ UNCHANGED <<image_vars, archive_vars, map_vars>>

CJobCollapse ==
    /\ cjob.status = "RUNNING"
    /\ cjob' = JobCollapsed(cjob)
    /\ UNCHANGED <<cp_pc, source_type, destination_type, job_config, submissions, at_pc,
                   cp_obs, cp_attached, cp_exit, cp_result, cp_error>>
    /\ UNCHANGED <<image_vars, archive_vars, map_vars>>

CJobCancel ==
    /\ cjob.status \in {"PENDING", "RUNNING"}
    /\ cjob' = JobCancelled(cjob)
    /\ UNCHANGED <<cp_pc, source_type, destination_type, job_config, submissions, at_pc,
                   cp_obs, cp_attached, cp_exit, cp_result, cp_error>>
    /\ UNCHANGED <<image_vars, archive_vars, map_vars>>

Init == CopierInit /\ ImageIdle /\ ArchiveIdle /\ MapIdle

Next ==
    \/ \E s \in Urls, d \in Urls, c \in BOOLEAN, x \in BOOLEAN : Construct(s, d, c, x)
    \/ Submit
    \/ Attach
    \/ AT_Poll
    \/ AT_Monitor
    \/ AT_MonitorEnd
    \/ AT_Status
    \/ CJobStart
    \/ \E e \in 0..MaxExit : CJobExit(e)
    \/ CJobCollapse
    \/ CJobCancel

Spec == Init /\ [][Next]_vars

(***************************************************************************)
(* A copier used again: perform_copy holds no record of an earlier call,   *)
(* so a caller that invokes it again on the same copier starts it anew.    *)
(***************************************************************************)
\* perform_copy called after an earlier call returned or raised: jobs.start
\* is handed self.job_config again; the locals of the call start afresh.
PerformCopyAgain ==
    /\ cp_pc \in {"COMPLETED", "FAILED"}
    /\ Len(submissions) < MaxCalls
    /\ submissions' = Append(submissions, job_config)
    /\ cjob' = NewJob
    /\ cp_obs' = "PENDING"
    /\ cp_pc' = "SUBMITTED"
    /\ at_pc' = None
    /\ cp_attached' = FALSE
    /\ cp_exit' = NoCode
    /\ cp_result' = NoUrl
    /\ cp_error' = NoError
    /\ UNCHANGED <<source_type, destination_type, job_config>>
    /\ UNCHANGED <<image_vars, archive_vars, map_vars>>

ReuseNext == Next \/ PerformCopyAgain

ReuseSpec == Init /\ [][ReuseNext]_vars

(***************************************************************************)
(* _build_image (image.py): launch the builder job and follow it.          *)
(***************************************************************************)
image_frame == UNCHANGED <<copier_vars, archive_vars, map_vars>>

\* The command has been invoked and nothing has run yet.
ImageStart ==
    /\ bi_pc = "start"
    /\ bjob = NoJob
    /\ bi_job = NoJob
    /\ bi_echoed = 0
    /\ bi_exit = NoCode

\* builder.launch(...): the job is started and its first snapshot returned.
BI_Launch ==
    /\ bi_pc = "start"
    /\ bjob' = NewJob
    /\ bi_job' = NewJob
    /\ bi_pc' = "poll"
    /\ UNCHANGED <<bi_echoed, bi_exit>>
    /\ image_frame

\* What one pass of `while job.status == PENDING` fetches into `job`.
\* A faulty variant: the status fetched is dropped.
PollKeepsSnapshot(snapshot, current) == snapshot

PollFetch(snapshot, current) == current

\* while job.status == PENDING: job = await client.jobs.status(job.id); sleep(1.0)
BI_Poll ==
    /\ bi_pc = "poll"
    /\ bi_job.status = "PENDING"
    /\ bi_job' = PollFetch(bi_job, bjob)
    /\ UNCHANGED <<bi_pc, bjob, bi_echoed, bi_exit>>
    /\ image_frame

\* The loop ends: client.jobs.monitor(job.id) is attached.
BI_Attach ==
    /\ bi_pc = "poll"
    /\ bi_job.status # "PENDING"
    /\ bi_pc' = "monitor"
    /\ UNCHANGED <<bjob, bi_job, bi_echoed, bi_exit>>
    /\ image_frame

\* async for chunk in monitor: a non-empty chunk is echoed.
BI_Chunk ==
    /\ bi_pc = "monitor"
    /\ bi_echoed < MaxChunks
    /\ bi_echoed' = bi_echoed + 1
    /\ UNCHANGED <<bi_pc, bjob, bi_job, bi_exit>>
    /\ image_frame

\* The stream ends, or yields an empty chunk (`if not chunk: break`).
BI_MonitorEnd ==
    /\ bi_pc = "monitor"
    /\ bi_pc' = "status"
    /\ UNCHANGED <<bjob, bi_job, bi_echoed, bi_exit>>
    /\ image_frame

\* A faulty variant: a missing exit code is not replaced.
BuildExitCodeAsRecorded(j) == j.exit_code

\* The process exit status for a FAILED job.
BuildExitCode(j) == IF j.exit_code = NoCode THEN EX_PLATFORMERROR ELSE j.exit_code

\* job = await client.jobs.status(job.id); FAILED exits the process with the
\* job's exit code, anything else is logged as successfully built.
BI_Status ==
    /\ bi_pc = "status"
    /\ bi_job' = bjob
    /\ IF bjob.status = "FAILED"
       THEN /\ bi_exit' = BuildExitCode(bjob)
            /\ bi_pc' = "exited"
       ELSE /\ bi_exit' = bi_exit
            /\ bi_pc' = "built"
    /\ UNCHANGED <<bjob, bi_echoed>>
    /\ image_frame

(***************************************************************************)
(* The scheduler's steps on the builder job.                               *)
(***************************************************************************)
BJobStart ==
    /\ bjob.status = "PENDING"
    /\ bjob' = JobStarted(bjob)
    /\ UNCHANGED <<bi_pc, bi_job, bi_echoed, bi_exit>>
    /\ image_frame

BJobExit(e) ==
    /\ bjob.status = "RUNNING"
    /\ bjob' = JobExited(bjob, e)
    /\ UNCHANGED <<bi_pc, bi_job, bi_echoed, bi_exit>>
    /\ image_frame

BJobCollapse ==
    /\ bjob.status = "RUNNING"
    /\ bjob' = JobCollapsed(bjob)
    /\ UNCHANGED <<bi_pc, bi_job, bi_echoed, bi_exit>>
    /\ image_frame

BJobCancel ==
    /\ bjob.status \in {"PENDING", "RUNNING"}
    /\ bjob' = JobCancelled(bjob)
    /\ UNCHANGED <<bi_pc, bi_job, bi_echoed, bi_exit>>
    /\ image_frame

ImageInit == CopierIdle /\ ImageStart /\ ArchiveIdle /\ MapIdle

ImageNext ==
    \/ BI_Launch
    \/ BI_Poll
    \/ BI_Attach
    \/ BI_Chunk
    \/ BI_MonitorEnd
    \/ BI_Status
    \/ BJobStart
    \/ \E e \in 0..MaxExit : BJobExit(e)
    \/ BJobCollapse
    \/ BJobCancel

ImageSpec == ImageInit /\ [][ImageNext]_vars

(***************************************************************************)
(* ArchiveType (data/common.py).  A value is a set of flags: a file name   *)
(* classifies to one flag or to UNSUPPORTED, TAR is the family of the tar  *)
(* variants.                                                               *)
(***************************************************************************)
UNSUPPORTED == {}
TAR_PLAIN == {"TAR_PLAIN"}
TAR_GZ == {"TAR_GZ"}
TAR_BZ == {"TAR_BZ"}
GZ == {"GZ"}
ZIP == {"ZIP"}
TAR == TAR_PLAIN \cup TAR_GZ \cup TAR_BZ

\* ArchiveType.get_extension_mapping: extension -> type, longest first.
ExtensionMapping ==
    <<[ext |-> <<"tar", "gz">>, type |-> TAR_GZ],
      [ext |-> <<"tar", "bz2">>, type |-> TAR_BZ],
      [ext |-> <<"tgz">>, type |-> TAR_GZ],
      [ext |-> <<"tar">>, type |-> TAR_PLAIN],
      [ext |-> <<"gz">>, type |-> GZ],
      [ext |-> <<"zip">>, type |-> ZIP]>>

AllExtensions == {ExtensionMapping[i].ext : i \in DOMAIN ExtensionMapping}

\* Equality of a classified type with a type or a family: membership.
ArchiveTypeEq(a, b) == IF a = {} \/ b = {} THEN a = b ELSE a \cap b # {}

\* `t == (~family)`: t is not a member of the family.
IsNotMember(t, family) == ~ArchiveTypeEq(t, family)

\* ArchiveType.get_extensions_for_type
ExtensionsFor(type) ==
    {ExtensionMapping[i].ext : i \in {k \in DOMAIN ExtensionMapping :
                                        ArchiveTypeEq(ExtensionMapping[k].type, type)}}

\* Whether a name with these suffixes ends with the extension.
EndsWith(suffixes, ext) ==
    /\ Len(suffixes) >= Len(ext)
    /\ SubSeq(suffixes, Len(suffixes) - Len(ext) + 1, Len(suffixes)) = ext

\* ArchiveType.get_type: the first extension of the table the name ends with.
ArchiveType_get_type(suffixes) ==
    LET hits == {i \in DOMAIN ExtensionMapping : EndsWith(suffixes, ExtensionMapping[i].ext)}
    IN  IF hits = {} THEN UNSUPPORTED
        ELSE ExtensionMapping[CHOOSE i \in hits : \A k \in hits : i <= k].type

(***************************************************************************)
(* Resource (data/common.py): has_name is FALSE for a URL that names a     *)
(* directory or prefix (it ends with "/"), is_dir says what the path is    *)
(* on disk, suffixes are the file name's suffixes.                         *)
(***************************************************************************)
FileNames ==
    {<<>>, <<"txt">>, <<"tar">>, <<"tar", "gz">>, <<"tgz">>, <<"tar", "bz2">>,
     <<"gz">>, <<"zip">>, <<"txt", "gz">>}

Resources ==
    {[has_name |-> TRUE, is_dir |-> FALSE, suffixes |-> n] : n \in FileNames}
    \cup {[has_name |-> FALSE, is_dir |-> TRUE, suffixes |-> <<>>],
          [has_name |-> TRUE, is_dir |-> TRUE, suffixes |-> <<>>]}

\* Resource.archive_type
archive_type(r) == IF r.has_name THEN ArchiveType_get_type(r.suffixes) ELSE UNSUPPORTED

\* What a call does before it first waits for an external command: the
\* events, the manager selected, the command started or the error raised.
Ran(events, mgr, cmd) == [events |-> events, mgr |-> mgr, cmd |-> cmd, err |-> NoArchiveError]
Raised(events, mgr, kind, extensions) ==
    [events |-> events, mgr |-> mgr, cmd |-> None,
     err |-> [kind |-> kind, extensions |-> extensions]]

(***************************************************************************)
(* The strategies.  Each takes the events so far and the manager name.     *)
(***************************************************************************)
\* TarManager.compress
TarManager_compress(source, destination, ev) ==
    IF IsNotMember(archive_type(destination), TAR)
    THEN Raised(ev \o <<"validate">>, "tar", "UnsupportedFamily", ExtensionsFor(TAR))
    ELSE Ran(ev \o <<"validate", "run:tar">>, "tar", "tar")

\* TarManager.extract
\* A faulty variant: tar is started before the destination directory is made.
TarExtractRunsFirst(source, destination, ev) ==
    IF IsNotMember(archive_type(source), TAR)
    THEN Raised(ev \o <<"validate">>, "tar", "UnsupportedFamily", ExtensionsFor(TAR))
    ELSE Ran(ev \o <<"validate", "run:tar", "mkdir">>, "tar", "tar")

TarManager_extract(source, destination, ev) ==
    IF IsNotMember(archive_type(source), TAR)
    THEN Raised(ev \o <<"validate">>, "tar", "UnsupportedFamily", ExtensionsFor(TAR))
    ELSE Ran(ev \o <<"validate", "mkdir", "run:tar">>, "tar", "tar")

\* A faulty variant: gzip is run on a directory.
GzipCompressAnySource(source, destination, ev) ==
    IF IsNotMember(ArchiveType_get_type(destination.suffixes), GZ)
    THEN Raised(ev \o <<"validate">>, "gzip", "UnsupportedFamily", ExtensionsFor(GZ))
    ELSE Ran(ev \o <<"validate", "run:gzip">>, "gzip", "gzip")

\* GzipManager.compress
GzipManager_compress(source, destination, ev) ==
    IF IsNotMember(ArchiveType_get_type(destination.suffixes), GZ)
    THEN Raised(ev \o <<"validate">>, "gzip", "UnsupportedFamily", ExtensionsFor(GZ))
    ELSE IF source.is_dir
    THEN Raised(ev \o <<"validate", "is_dir">>, "gzip", "Validation", {})
    ELSE Ran(ev \o <<"validate", "is_dir", "run:gzip">>, "gzip", "gzip")

\* GzipManager.extract: the type checked is the destination's.
GzipManager_extract(source, destination, ev) ==
    IF IsNotMember(ArchiveType_get_type(destination.suffixes), GZ)
    THEN Raised(ev \o <<"validate">>, "gzip", "UnsupportedFamily", ExtensionsFor(GZ))
    ELSE Ran(ev \o <<"validate", "run:gunzip">>, "gzip", "gunzip")

\* ZipManager.compress
ZipManager_compress(source, destination, ev) ==
    IF IsNotMember(ArchiveType_get_type(destination.suffixes), ZIP)
    THEN Raised(ev \o <<"validate">>, "zip", "UnsupportedFamily", ExtensionsFor(ZIP))
    ELSE Ran(ev \o <<"validate", "run:zip">>, "zip", "zip")

\* ZipManager.extract: the type checked is the destination's.
ZipManager_extract(source, destination, ev) ==
    IF IsNotMember(ArchiveType_get_type(destination.suffixes), ZIP)
    THEN Raised(ev \o <<"validate">>, "zip", "UnsupportedFamily", ExtensionsFor(ZIP))
    ELSE Ran(ev \o <<"validate", "mkdir", "run:unzip">>, "zip", "unzip")

Managers == {"tar", "gzip", "zip"}

Manager_compress(m, source, destination, ev) ==
    CASE m = "tar" -> TarManager_compress(source, destination, ev)
      [] m = "gzip" -> GzipManager_compress(source, destination, ev)
      [] m = "zip" -> ZipManager_compress(source, destination, ev)

Manager_extract(m, source, destination, ev) ==
    CASE m = "tar" -> TarManager_extract(source, destination, ev)
      [] m = "gzip" -> GzipManager_extract(source, destination, ev)
      [] m = "zip" -> ZipManager_extract(source, destination, ev)

(***************************************************************************)
(* _get_archive_manager: the first entry of the mapping whose key equals   *)
(* the archive's type.                                                     *)
(***************************************************************************)
ManagerMapping ==
    <<[type |-> TAR, manager |-> "tar"],
      [type |-> GZ, manager |-> "gzip"],
      [type |-> ZIP, manager |-> "zip"]>>

\* next(manager for ... in mapping.items() if ...): the first of the entries
\* that passed the test, or StopIteration.
FirstManager(hits) ==
    IF hits = {}
    THEN [found |-> FALSE, manager |-> None, kind |-> "StopIteration", extensions |-> {}]
    ELSE [found |-> TRUE, kind |-> None, extensions |-> {},
          manager |-> ManagerMapping[CHOOSE i \in hits : \A k \in hits : i <= k].manager]

UnsupportedTypeError ==
    [found |-> FALSE, manager |-> None, kind |-> "UnsupportedType",
     extensions |-> AllExtensions]

\* A faulty variant: the mapping's keys are compared as exact values.
GetManagerExactKey(archive) ==
    LET type == ArchiveType_get_type(archive.suffixes)
    IN  IF ArchiveTypeEq(type, UNSUPPORTED)
        THEN UnsupportedTypeError
        ELSE FirstManager({i \in DOMAIN ManagerMapping : ManagerMapping[i].type = type})

\* A faulty variant: an unrecognised type is not refused.
GetManagerNoRefusal(archive) ==
    LET type == ArchiveType_get_type(archive.suffixes)
    IN  FirstManager({i \in DOMAIN ManagerMapping :
                        ArchiveTypeEq(ManagerMapping[i].type, type)})

get_archive_manager(archive) ==
    LET type == ArchiveType_get_type(archive.suffixes)
    IN  IF ArchiveTypeEq(type, UNSUPPORTED)
        THEN UnsupportedTypeError
        ELSE FirstManager({i \in DOMAIN ManagerMapping :
                             ArchiveTypeEq(ManagerMapping[i].type, type)})

(***************************************************************************)
(* compress and extract, the entry points.                                 *)
(***************************************************************************)
\* A faulty variant: the copy is taken whenever the two types are equal.
ShortCircuitOnSameType(source, destination) ==
    /\ source.has_name /\ destination.has_name
    /\ archive_type(source) = archive_type(destination)

\* compress's test for skipping the compression step.
compress_short_circuit(source, destination) ==
    /\ source.has_name /\ destination.has_name
    /\ ~ArchiveTypeEq(UNSUPPORTED, archive_type(source))
    /\ ~ArchiveTypeEq(UNSUPPORTED, archive_type(destination))
    /\ ArchiveTypeEq(archive_type(source), archive_type(destination))

\* compress(source, destination)
compress(source, destination) ==
    IF compress_short_circuit(source, destination)
    THEN Ran(<<"ensure_folder", "run:cp">>, None, "cp")
    ELSE LET sel == get_archive_manager(destination)
             ev == <<"ensure_folder", "classify", "select">>
         IN  IF sel.found
             THEN Manager_compress(sel.manager, source, destination, ev)
             ELSE Raised(ev, None, sel.kind, sel.extensions)

\* extract(source, destination)
extract(source, destination) ==
    LET sel == get_archive_manager(source)
        ev == <<"ensure_folder", "classify", "select">>
    IN  IF sel.found
        THEN Manager_extract(sel.manager, source, destination, ev)
        ELSE Raised(ev, None, sel.kind, sel.extensions)

\* An archive operation is about to be called.
ArchiveStart ==
    /\ ar_pc = "idle"
    /\ ar_req = [via |-> None, op |-> None, source |-> NoResource, destination |-> NoResource]
    /\ ar_mgr = None
    /\ ar_log = <<>>
    /\ ar_cmd = None
    /\ ar_tmp = FALSE
    /\ ar_ret = NoResource
    /\ ar_err = NoArchiveError

archive_frame == UNCHANGED <<copier_vars, image_vars, map_vars>>

\* The call runs up to its first external command, or raises.
Begin(req, out) ==
    /\ ar_pc = "idle"
    /\ ar_req' = req
    /\ ar_mgr' = out.mgr
    /\ ar_log' = out.events
    /\ ar_cmd' = out.cmd
    /\ ar_err' = out.err
    /\ ar_pc' = IF out.cmd = None THEN "error" ELSE "tool"
    /\ UNCHANGED <<ar_tmp, ar_ret>>
    /\ archive_frame

AR_Compress(source, destination) ==
    Begin([via |-> "entry", op |-> "compress", source |-> source, destination |-> destination],
          compress(source, destination))

AR_Extract(source, destination) ==
    Begin([via |-> "entry", op |-> "extract", source |-> source, destination |-> destination],
          extract(source, destination))

\* A strategy is called directly.
AR_ManagerCompress(m, source, destination) ==
    Begin([via |-> m, op |-> "compress", source |-> source, destination |-> destination],
          Manager_compress(m, source, destination, <<>>))

AR_ManagerExtract(m, source, destination) ==
    Begin([via |-> m, op |-> "extract", source |-> source, destination |-> destination],
          Manager_extract(m, source, destination, <<>>))

\* CLIRunner.run_command: the command exits with status zero.  gzip and
\* gunzip have written their output next to the source, and mv is run.
AR_ToolOk ==
    /\ ar_pc = "tool"
    /\ IF ar_cmd \in {"gzip", "gunzip"}
       THEN /\ ar_tmp' = TRUE
            /\ ar_log' = ar_log \o <<"run:mv">>
            /\ ar_cmd' = "mv"
            /\ ar_pc' = "mv"
            /\ ar_ret' = ar_ret
       ELSE /\ ar_pc' = "done"
            /\ ar_ret' = ar_req.destination
            /\ ar_cmd' = None
            /\ UNCHANGED <<ar_tmp, ar_log>>
    /\ UNCHANGED <<ar_req, ar_mgr, ar_err>>
    /\ archive_frame

\* The command exits with a non-zero status: run_command raises.
AR_ToolFail ==
    /\ ar_pc = "tool"
    /\ ar_pc' = "error"
    /\ ar_cmd' = None
    /\ ar_err' = [kind |-> "ExternalTool", extensions |-> {}]
    /\ UNCHANGED <<ar_req, ar_mgr, ar_log, ar_tmp, ar_ret>>
    /\ archive_frame

\* mv moved gzip's output to the destination.
AR_MvOk ==
    /\ ar_pc = "mv"
    /\ ar_tmp' = FALSE
    /\ ar_pc' = "done"
    /\ ar_cmd' = None
    /\ ar_ret' = ar_req.destination
    /\ UNCHANGED <<ar_req, ar_mgr, ar_log, ar_err>>
    /\ archive_frame

\* mv failed: run_command raises, gzip's output stays where it is.
AR_MvFail ==
    /\ ar_pc = "mv"
    /\ ar_pc' = "error"
    /\ ar_cmd' = None
    /\ ar_err' = [kind |-> "ExternalTool", extensions |-> {}]
    /\ UNCHANGED <<ar_req, ar_mgr, ar_log, ar_tmp, ar_ret>>
    /\ archive_frame

ArchiveInit == CopierIdle /\ ImageIdle /\ ArchiveStart /\ MapIdle

ArchiveNext ==
    \/ \E s \in Resources, d \in Resources : AR_Compress(s, d)
    \/ \E s \in Resources, d \in Resources : AR_Extract(s, d)
    \/ \E m \in Managers, s \in Resources, d \in Resources : AR_ManagerCompress(m, s, d)
    \/ \E m \in Managers, s \in Resources, d \in Resources : AR_ManagerExtract(m, s, d)
    \/ AR_ToolOk
    \/ AR_ToolFail
    \/ AR_MvOk
    \/ AR_MvFail

ArchiveSpec == ArchiveInit /\ [][ArchiveNext]_vars

(***************************************************************************)
(* Following a job under the scheduling the program runs with: the event   *)
(* loop runs every step that is ready, the scheduler moves a job on, and   *)
(* a log stream ends.  One command runs per behaviour.                     *)
(***************************************************************************)
CopierStep ==
    \/ \E s \in Urls, d \in Urls, c \in BOOLEAN, x \in BOOLEAN : Construct(s, d, c, x)
    \/ Submit \/ Attach \/ AT_Poll \/ AT_Monitor \/ AT_MonitorEnd \/ AT_Status

CSchedulerStep ==
    \/ CJobStart \/ CJobCollapse \/ CJobCancel
    \/ \E e \in 0..MaxExit : CJobExit(e)

BuilderStep == BI_Launch \/ BI_Poll \/ BI_Attach \/ BI_MonitorEnd \/ BI_Status

BSchedulerStep ==
    \/ BJobStart \/ BJobCollapse \/ BJobCancel
    \/ \E e \in 0..MaxExit : BJobExit(e)

FollowInit == Init \/ ImageInit

FollowNext == Next \/ ImageNext

FairFollowSpec ==
    /\ FollowInit
    /\ [][FollowNext]_vars
    /\ WF_vars(CopierStep)
    /\ WF_vars(CSchedulerStep)
    /\ WF_vars(BuilderStep)
    /\ WF_vars(BSchedulerStep)

(***************************************************************************)
(* The URL-to-volume mapper and the worker command (remote.py).  A string  *)
(* is the sequence of its tokens; f-strings and + concatenate.             *)
(***************************************************************************)
\* The URLs a mapping is asked for carry at most MaxDepth directory levels.
MaxDepth == 1

NoName == <<>>
NoPath == <<>>

Dirs == {"proj", "data"}
FileNamesInUrls == {"file.tar"}
DiskIds == {"disk-1"}
Modes == {"ro"}

RECURSIVE DirPaths(_)
\* The directory paths of depth at most n: "", "/proj", "/proj/data", ...
DirPaths(n) ==
    IF n = 0 THEN {<<>>}
    ELSE DirPaths(n - 1) \cup
         {p \o <<"/", d>> : p \in {q \in DirPaths(n - 1) : Len(q) = 2 * (n - 1)}, d \in Dirs}

\* A path below a root: a directory (with or without the trailing slash)
\* or a file in a directory.
PathsBelow == 
    {p \o <<"/">> : p \in DirPaths(MaxDepth)} \cup
    {p \o <<"/", f>> : p \in DirPaths(MaxDepth), f \in FileNamesInUrls}

StorageUrls == {<<"storage", ":", "//cluster">> \o p : p \in PathsBelow}
DiskUrls ==
    {<<"disk", ":", i>> \o p : i \in DiskIds, p \in PathsBelow \cup {NoPath}} \cup
    {<<"disk", ":", i>> \o p \o <<":", m>> : i \in DiskIds, p \in PathsBelow, m \in Modes}
CloudUrls == {<<s, ":", "//bucket">> \o p : s \in {"gs"}, p \in PathsBelow}
LocalUrls == {<<"/tmp">> \o p : p \in PathsBelow}
UrlStrings == StorageUrls \cup DiskUrls \cup CloudUrls \cup LocalUrls

\* The scheme a URL string starts with; a string without one is a local path.
SchemeOf(url) == IF Len(url) >= 2 /\ url[2] = ":" THEN url[1] ELSE "file"

UrlTypeOf(url) == UrlType_get_type([scheme |-> SchemeOf(url)])

\* get_filename_from_url: what follows the last slash, None when nothing does.
get_filename_from_url(url) ==
    IF Len(url) >= 2 /\ url[Len(url) - 1] = "/" /\ url[Len(url)] # "/"
    THEN <<url[Len(url)]>>
    ELSE NoName

\* strip_filename_from_url: the URL of the directory that holds the file.
strip_filename_from_url(url) ==
    IF get_filename_from_url(url) = NoName THEN url ELSE SubSeq(url, 1, Len(url) - 1)

\* parse_resource_spec on a disk URL: scheme:disk-id[/path][:mode].
parse_resource_spec(url) ==
    LET rest == SubSeq(url, 4, Len(url))
        moded == Len(rest) >= 2 /\ rest[Len(rest) - 1] = ":"
    IN  [schema |-> <<url[1]>>,
         disk_id |-> <<url[3]>>,
         path_on_disk |-> IF moded THEN SubSeq(rest, 1, Len(rest) - 2) ELSE rest,
         mode |-> IF moded THEN <<rest[Len(rest)]>> ELSE <<"rw">>]

\* The default prefixes of _map_into_volumes.
source_storage_mount_prefix == <<"/var/storage/source">>
destination_storage_mount_prefix == <<"/var/storage/destination">>
source_disk_mount_prefix == <<"/var/disk/source">>
destination_disk_mount_prefix == <<"/var/disk/destination">>
\* The default mount_mode of _map_singe_url_into_volume.
mount_mode_default == <<"rw">>

\* f"{resource_url}:{mountpoint}:{mount_mode}"
VolumeSpec(resource_url, mountpoint, mount_mode) ==
    resource_url \o <<":">> \o mountpoint \o <<":">> \o mount_mode

\* A faulty variant: a storage file is always mounted as its directory.
MapSingleMountsParent(url, storage_mount_prefix, disk_mount_prefix, mount_files, mount_mode) ==
    LET filename == get_filename_from_url(url)
    IN  IF UrlTypeOf(url) = STORAGE /\ filename # NoName
        THEN [new_url |-> storage_mount_prefix \o <<"/">> \o filename,
              volumes |-> <<VolumeSpec(strip_filename_from_url(url),
                                       storage_mount_prefix \o <<"/">>, mount_mode)>>]
        ELSE [new_url |-> url, volumes |-> <<>>]

\* A faulty variant: every URL with a scheme is mounted like platform storage.
MapSingleMountsCloud(url, storage_mount_prefix, disk_mount_prefix, mount_files, mount_mode) ==
    IF SchemeOf(url) # "file"
    THEN [new_url |-> storage_mount_prefix \o <<"/">>,
          volumes |-> <<VolumeSpec(url, storage_mount_prefix \o <<"/">>, mount_mode)>>]
    ELSE [new_url |-> url, volumes |-> <<>>]

\* A faulty variant: the path on the disk is dropped from the rewritten path.
MapSingleDropsDiskPath(url, storage_mount_prefix, disk_mount_prefix, mount_files, mount_mode) ==
    IF UrlTypeOf(url) = DISK
    THEN [new_url |-> disk_mount_prefix \o <<"/">>,
          volumes |-> <<VolumeSpec(parse_resource_spec(url).schema \o <<":">>
                                       \o parse_resource_spec(url).disk_id,
                                   disk_mount_prefix \o <<"/">>, mount_mode)>>]
    ELSE [new_url |-> url, volumes |-> <<>>]

_map_singe_url_into_volume(url, storage_mount_prefix, disk_mount_prefix, mount_files, mount_mode) ==
    LET url_type == UrlTypeOf(url)
        filename == get_filename_from_url(url)
    IN  IF url_type = STORAGE
        THEN LET resource_url ==
                     IF filename # NoName /\ ~mount_files
                     THEN strip_filename_from_url(url)
                     ELSE url
                 mountpoint ==
                     IF filename # NoName /\ mount_files
                     THEN storage_mount_prefix \o <<"/">> \o filename
                     ELSE storage_mount_prefix \o <<"/">>
                 new_url ==
                     IF filename # NoName
                     THEN storage_mount_prefix \o <<"/">> \o filename
                     ELSE mountpoint
             IN  [new_url |-> new_url,
                  volumes |-> <<VolumeSpec(resource_url, mountpoint, mount_mode)>>]
        ELSE IF url_type = DISK
        THEN LET spec == parse_resource_spec(url)
                 resource_url == spec.schema \o <<":">> \o spec.disk_id
                 mountpoint == disk_mount_prefix \o <<"/">>
                 new_url ==
                     IF spec.path_on_disk # NoPath
                     THEN disk_mount_prefix \o spec.path_on_disk
                     ELSE mountpoint
             IN  [new_url |-> new_url,
                  volumes |-> <<VolumeSpec(resource_url, mountpoint, mount_mode)>>]
        ELSE [new_url |-> url, volumes |-> <<>>]

\* A faulty variant: the destination is mapped under the source's prefixes.
MapPairSharesPrefixes(source, destination) ==
    LET s == _map_singe_url_into_volume(source, source_storage_mount_prefix,
                                        source_disk_mount_prefix, TRUE, mount_mode_default)
        d == _map_singe_url_into_volume(destination, source_storage_mount_prefix,
                                        source_disk_mount_prefix, FALSE, mount_mode_default)
    IN  [new_source |-> s.new_url, new_destination |-> d.new_url,
         volumes |-> s.volumes \o d.volumes]

_map_into_volumes(source, destination) ==
    LET s == _map_singe_url_into_volume(source, source_storage_mount_prefix,
                                        source_disk_mount_prefix, TRUE, mount_mode_default)
        d == _map_singe_url_into_volume(destination, destination_storage_mount_prefix,
                                        destination_disk_mount_prefix, FALSE, mount_mode_default)
    IN  [new_source |-> s.new_url, new_destination |-> d.new_url,
         volumes |-> s.volumes \o d.volumes]

RECURSIVE Join(_, _)
\* sep.join(parts)
Join(sep, parts) ==
    IF parts = <<>> THEN <<>>
    ELSE IF Len(parts) = 1 THEN parts[1]
    ELSE parts[1] \o sep \o Join(sep, Tail(parts))

command_prefix == <<(<<"neuro-extras">>), (<<"data">>), (<<"cp">>)>>

\* A faulty variant: the extraction flag is passed whenever compression is asked for.
BuildCommandFlagsTied(source, destination, extract_flag, compress_flag) ==
    Join(<<" ">>, command_prefix
                  \o (IF compress_flag THEN <<(<<"-c">>), (<<"-x">>)>> ELSE <<>>)
                  \o <<source, destination>>)

_build_data_copy_command(source, destination, extract_flag, compress_flag) ==
    LET args == <<source, destination>>
        flags == (IF compress_flag THEN <<(<<"-c">>)>> ELSE <<>>)
                 \o (IF extract_flag THEN <<(<<"-x">>)>> ELSE <<>>)
    IN  Join(<<" ">>, command_prefix \o flags \o args)

\* RemoteJobConfig.create, the part that maps the endpoints, builds the
\* command and merges the caller's volumes with the derived mounts.
JobCommandAndVolumes(source, destination, compress_flag, extract_flag, volumes) ==
    LET mapped == _map_into_volumes(source, destination)
    IN  [command |-> _build_data_copy_command(mapped.new_source, mapped.new_destination,
                                              extract_flag, compress_flag),
         data_mounts |-> mapped.volumes,
         volumes |-> IF volumes # <<>> THEN volumes \o mapped.volumes ELSE mapped.volumes]

\* The volumes a caller passes with the request.
CallerVolumes == {<<>>, <<VolumeSpec(<<"storage", ":", "//cluster", "/", "extra">>,
                                     <<"/var/extra">>, <<"ro">>)>>}

MapStart ==
    /\ mp_pc = "idle"
    /\ mp_call = NoCall
    /\ mp_out = NoOutput

map_frame == UNCHANGED <<copier_vars, image_vars, archive_vars>>

\* One endpoint is mapped, under the prefixes of its side.
MP_MapSingle(url, side, mount_files) ==
    LET storage_mount_prefix ==
            IF side = "source" THEN source_storage_mount_prefix
            ELSE destination_storage_mount_prefix
        disk_mount_prefix ==
            IF side = "source" THEN source_disk_mount_prefix
            ELSE destination_disk_mount_prefix
    IN  /\ mp_pc = "idle"
        /\ mp_call' = [fn |-> "_map_singe_url_into_volume", url |-> url,
                       storage_mount_prefix |-> storage_mount_prefix,
                       disk_mount_prefix |-> disk_mount_prefix,
                       mount_files |-> mount_files, mount_mode |-> mount_mode_default]
        /\ mp_out' = _map_singe_url_into_volume(url, storage_mount_prefix, disk_mount_prefix,
                                                mount_files, mount_mode_default)
        /\ mp_pc' = "done"
        /\ map_frame

\* A (source, destination) pair is mapped.
MP_MapPair(source, destination) ==
    /\ mp_pc = "idle"
    /\ mp_call' = [fn |-> "_map_into_volumes", source |-> source, destination |-> destination]
    /\ mp_out' = _map_into_volumes(source, destination)
    /\ mp_pc' = "done"
    /\ map_frame

\* The in-container paths a command is built over.
CommandPaths == {<<"/var/storage/source", "/", "file.tar">>,
                 <<"/var/disk/destination", "/">>,
                 <<"gs", ":", "//bucket", "/", "file.tar">>}

\* The worker command is built.
MP_BuildCommand(source, destination, extract_flag, compress_flag) ==
    /\ mp_pc = "idle"
    /\ mp_call' = [fn |-> "_build_data_copy_command", source |-> source,
                   destination |-> destination, extract |-> extract_flag, compress |-> compress_flag]
    /\ mp_out' = [command |-> _build_data_copy_command(source, destination, extract_flag, compress_flag)]
    /\ mp_pc' = "done"
    /\ map_frame

\* A job config is created for a transfer request.
MP_Create(source, destination, compress_flag, extract_flag, volumes) ==
    /\ mp_pc = "idle"
    /\ mp_call' = [fn |-> "RemoteJobConfig.create", source |-> source,
                   destination |-> destination, compress |-> compress_flag,
                   extract |-> extract_flag, volumes |-> volumes]
    /\ mp_out' = JobCommandAndVolumes(source, destination, compress_flag, extract_flag, volumes)
    /\ mp_pc' = "done"
    /\ map_frame

MapInit == CopierIdle /\ ImageIdle /\ ArchiveIdle /\ MapStart

\* A mapping is computed once; the inputs are drawn while none has been.
MapNext ==
    \/ mp_pc = "idle" /\ \E u \in UrlStrings, side \in {"source", "destination"}, f \in BOOLEAN :
           MP_MapSingle(u, side, f)
    \/ mp_pc = "idle" /\ \E s \in UrlStrings, d \in UrlStrings : MP_MapPair(s, d)
    \/ mp_pc = "idle" /\ \E s \in CommandPaths, d \in CommandPaths, x \in BOOLEAN, c \in BOOLEAN :
           MP_BuildCommand(s, d, x, c)
    \/ mp_pc = "idle" /\ \E s \in UrlStrings, d \in UrlStrings, c \in BOOLEAN, x \in BOOLEAN,
          v \in CallerVolumes : MP_Create(s, d, c, x, v)

MapSpec == MapInit /\ [][MapNext]_vars

(***************************************************************************)
(* Claims.                                                                 *)
(***************************************************************************)
Constructed == cp_pc \notin {"off", "new"}
Accepted == cp_pc \notin {"off", "new", "rejected"}

\* C1 as stated: a transfer is accepted only when the pair of types is exactly
\* (PLATFORM_STORAGE, CLOUD) or (CLOUD, PLATFORM_STORAGE); every other pair is
\* rejected with an error and no job is submitted.
C1_OnlyStorageCloud ==
    /\ Accepted =>
         <<source_type, destination_type>> \in {<<STORAGE, CLOUD>>, <<CLOUD, STORAGE>>}
    /\ cp_pc = "rejected" => submissions = <<>>

\* C1 (amended): a transfer is accepted exactly when one endpoint is a platform
\* store (PLATFORM_STORAGE or DISK) and the other is CLOUD; every other pair,
\* (DISK, DISK) included, fails the route check with an error, and no job is
\* ever submitted for it.
C1_PlatformCloudRoutes ==
    LET platform == {STORAGE, DISK}
        routes == (platform \X {CLOUD}) \cup ({CLOUD} \X platform)
    IN  /\ Constructed => (Accepted <=> <<source_type, destination_type>> \in routes)
        /\ cp_pc = "rejected" =>
             /\ cp_error.kind = "ValueError"
             /\ submissions = <<>>
             /\ cjob = NoJob
        /\ submissions # <<>> => <<source_type, destination_type>> \in routes

\* C1 witness: a (DISK, DISK) transfer was rejected.
C1_Witness == cp_pc = "rejected" /\ source_type = DISK /\ destination_type = DISK

\* C2: perform_copy returns the destination exactly when the job's exit status
\* is zero; for a non-zero exit status it raises an error carrying that code
\* and returns nothing.
C2_ReturnIffZero ==
    /\ cp_pc = "COMPLETED" =>
         /\ cp_exit = EX_OK
         /\ cjob.exit_code = 0
         /\ cp_result = job_config.destination
         /\ cp_error = NoError
    /\ cp_pc = "FAILED" =>
         /\ cp_exit # EX_OK
         /\ cjob.exit_code # 0
         /\ cp_error.kind = "RuntimeError"
         /\ cp_error.code = cp_exit
         /\ cjob.exit_code # NoCode => cp_error.code = cjob.exit_code
         /\ cp_result = NoUrl
    /\ at_pc = "returned" => cp_pc \in {"COMPLETED", "FAILED"}

\* C2 witness: a job that exited with status 2 made perform_copy raise.
C2_Witness == cp_pc = "FAILED" /\ cjob.exit_code = 2 /\ cp_error.code = 2

\* The copier's positions, in the order it may take them.
CopierEdges ==
    {<<"new", "rejected">>, <<"new", "CREATED">>, <<"CREATED", "SUBMITTED">>,
     <<"SUBMITTED", "POLLING">>, <<"POLLING", "COMPLETED">>, <<"POLLING", "FAILED">>}

\* C3: the copier moves CREATED -> SUBMITTED -> POLLING -> {COMPLETED, FAILED};
\* the job is submitted before the log stream is attached or the status
\* polled, and perform_copy ends only once the job was observed terminal.
C3_SubmitThenFollow ==
    /\ [][cp_pc' # cp_pc => <<cp_pc, cp_pc'>> \in CopierEdges]_vars
    /\ [](cp_attached => Len(submissions) = 1 /\ cjob.status \in JobStatus)
    /\ [](cp_pc \in {"COMPLETED", "FAILED"} =>
            /\ cp_attached
            /\ cp_obs \in Terminal
            /\ cjob.status = cp_obs)

\* C3 witness: a copy ended after its job was seen FAILED.
C3_Witness == cp_pc = "FAILED" /\ cp_obs = "FAILED" /\ cp_attached

FollowDone ==
    \/ cp_pc \in {"rejected", "COMPLETED", "FAILED"}
    \/ bi_pc \in {"built", "exited"}

\* C4: when the scheduler moves the job on and the log stream ends, following
\* a job ends, in success or in failure.
C4_FollowingEnds == <>FollowDone

\* C4 witness: the build follower ended after polling a PENDING job, echoing
\* log chunks and reading the final status.
C4_Witness == bi_pc \in {"built", "exited"} /\ bi_echoed > 0 /\ bi_job.status \in Terminal

(***************************************************************************)
(* Claims on the archive subsystem.                                        *)
(***************************************************************************)
Called == ar_pc \notin {"off", "idle"}
ViaEntry(op) == Called /\ ar_req.via = "entry" /\ ar_req.op = op
Count(log, e) == Cardinality({i \in DOMAIN log : log[i] = e})
ToolEvents == {"run:tar", "run:gzip", "run:gunzip", "run:zip", "run:unzip"}
NoToolRun == \A i \in DOMAIN ar_log : ar_log[i] \notin ToolEvents
SourceType == archive_type(ar_req.source)
DestinationType == archive_type(ar_req.destination)

\* Both resources name files of one recognised archive type.
SameArchiveType ==
    /\ ar_req.source.has_name /\ ar_req.destination.has_name
    /\ SourceType # UNSUPPORTED
    /\ SourceType = DestinationType

\* C5 as stated: with both resources files of one recognised archive type,
\* compress makes exactly one plain copy and uses no manager or tool; in every
\* other case it makes no copy and a manager is selected.
C5_CopyElseManager ==
    ViaEntry("compress") =>
        IF SameArchiveType
        THEN Count(ar_log, "run:cp") = 1 /\ ar_mgr = None /\ NoToolRun
        ELSE Count(ar_log, "run:cp") = 0 /\ ar_mgr \in Managers

\* C5 (amended): with both resources files of one recognised archive type,
\* compress makes exactly one plain copy and uses no manager or tool; in every
\* other case it makes no copy and runs manager selection on the destination
\* instead, which selects no manager and fails when the destination's type is
\* UNSUPPORTED.
C5_CopyElseSelection ==
    ViaEntry("compress") =>
        IF SameArchiveType
        THEN /\ Count(ar_log, "run:cp") = 1
             /\ Count(ar_log, "select") = 0
             /\ ar_mgr = None
             /\ NoToolRun
        ELSE /\ Count(ar_log, "run:cp") = 0
             /\ Count(ar_log, "select") = 1
             /\ DestinationType = UNSUPPORTED =>
                  ar_mgr = None /\ ar_err.kind = "UnsupportedType"
             /\ ar_mgr = None => ar_pc = "error"

\* C5 witness: a .tgz file compressed into a .tar.gz name was copied.
C5_Witness ==
    /\ ViaEntry("compress") /\ ar_pc = "done"
    /\ ar_req.source.suffixes = <<"tgz">> /\ ar_req.destination.suffixes = <<"tar", "gz">>
    /\ ar_log = <<"ensure_folder", "run:cp">>

\* The strategy the claim names for a supported type.
StrategyFor(type) ==
    CASE type \in {TAR_PLAIN, TAR_GZ, TAR_BZ} -> "tar"
      [] type = GZ -> "gzip"
      [] type = ZIP -> "zip"

\* C6: selection maps TAR_PLAIN, TAR_GZ and TAR_BZ to the tar strategy, GZ to
\* gzip and ZIP to zip and never falls through; compress selects by the
\* destination's type, extract by the source's.
C6_SelectionTotal ==
    /\ ViaEntry("compress") /\ ~SameArchiveType /\ DestinationType # UNSUPPORTED =>
         ar_mgr = StrategyFor(DestinationType)
    /\ ViaEntry("extract") /\ SourceType # UNSUPPORTED =>
         ar_mgr = StrategyFor(SourceType)
    /\ ar_err.kind # "StopIteration"

\* C6 witness: extracting a .tgz into a name ending .zip ran tar, and so did
\* compressing a .zip into a .tar.bz2.
C6_Witness ==
    \/ /\ ViaEntry("extract") /\ ar_mgr = "tar" /\ ar_cmd = "tar"
       /\ SourceType = TAR_GZ /\ DestinationType = ZIP
    \/ /\ ViaEntry("compress") /\ ar_mgr = "tar" /\ ar_cmd = "tar"
       /\ SourceType = ZIP /\ DestinationType = TAR_BZ

\* The resource the dispatcher classifies.
SelectionType == IF ar_req.op = "compress" THEN DestinationType ELSE SourceType

\* C7: when the resource used for selection is UNSUPPORTED the dispatcher
\* fails with the unsupported-archive-type error that lists every recognised
\* extension, and the operation runs no external archive tool.
C7_UnsupportedRefused ==
    Called /\ ar_req.via = "entry" /\ SelectionType = UNSUPPORTED =>
        /\ ar_pc = "error"
        /\ ar_err.kind = "UnsupportedType"
        /\ ar_err.extensions = {<<"tar", "gz">>, <<"tgz">>, <<"tar", "bz2">>, <<"tar">>,
                                <<"gz">>, <<"zip">>}
        /\ ar_mgr = None
        /\ ar_cmd = None
        /\ NoToolRun /\ Count(ar_log, "run:cp") = 0 /\ Count(ar_log, "run:mv") = 0

\* C7 witness: extracting a .txt file was refused.
C7_Witness ==
    /\ ViaEntry("extract") /\ ar_req.source.suffixes = <<"txt">> /\ ar_req.source.has_name
    /\ ar_err.kind = "UnsupportedType"

\* The types of a strategy's family.
FamilyOf(m) ==
    CASE m = "tar" -> {TAR_PLAIN, TAR_GZ, TAR_BZ}
      [] m = "gzip" -> {GZ}
      [] m = "zip" -> {ZIP}

\* C8: every strategy checks the destination's type for compress and the
\* source's type for extract: it fails before running a tool exactly when
\* that type is outside its family, so extracting a supported archive into a
\* directory is not refused by the check.
C8_FamilyCheckedOnSelectionType ==
    Called /\ ar_mgr \in Managers =>
        /\ ar_err.kind = "UnsupportedFamily" <=> SelectionType \notin FamilyOf(ar_mgr)
        /\ ar_err.kind = "UnsupportedFamily" => NoToolRun

\* C9: compressing a directory into a GZ destination fails with a validation
\* error before gzip is run; compressing it into a tar-family destination is
\* not refused.
C9_GzipRefusesDirectory ==
    ViaEntry("compress") /\ ar_req.source.is_dir =>
        /\ DestinationType = GZ =>
             /\ ar_pc = "error"
             /\ ar_err.kind = "Validation"
             /\ Count(ar_log, "run:gzip") = 0
             /\ ar_ret = NoResource
        /\ DestinationType \in {TAR_PLAIN, TAR_GZ, TAR_BZ} =>
             /\ Count(ar_log, "run:tar") = 1
             /\ ar_err.kind \in {None, "ExternalTool"}

\* C9 witness: a directory was refused for a .gz destination.
C9_Witness ==
    /\ ViaEntry("compress") /\ ar_req.source.is_dir /\ ~ar_req.source.has_name
    /\ ar_req.destination.suffixes = <<"gz">> /\ ar_err.kind = "Validation"

\* C10: the gzip strategy renames only after the tool succeeded, a failure of
\* either step is raised and nothing is returned, and on every exit path the
\* in-place intermediate file is not left next to the source.
C10_GzipTwoStepsAtomic ==
    Called /\ ar_mgr = "gzip" =>
        /\ Count(ar_log, "run:mv") = 1 => ar_tmp \/ ar_pc = "done"
        /\ ar_pc = "error" => ar_ret = NoResource /\ ar_err.kind # None
        /\ ar_pc \in {"done", "error"} => ~ar_tmp

(***************************************************************************)
(* Claims about the URL-to-volume mapper and the worker command.           *)
(***************************************************************************)
Mapped(fn) == mp_pc = "done" /\ mp_call.fn = fn

MaxOf(S) == CHOOSE m \in S : \A n \in S : n <= m

Colons(spec) == {i \in 1..Len(spec) : spec[i] = ":"}

\* The fields of a volume spec, read from its end: the mode follows the last
\* colon, the mount point lies between the last two colons, the resource
\* locator is what precedes.
ModeOf(spec) == SubSeq(spec, MaxOf(Colons(spec)) + 1, Len(spec))

MountPointOf(spec) ==
    LET last == MaxOf(Colons(spec))
    IN  SubSeq(spec, MaxOf(Colons(spec) \ {last}) + 1, last - 1)

LocatorOf(spec) ==
    LET last == MaxOf(Colons(spec))
    IN  SubSeq(spec, 1, MaxOf(Colons(spec) \ {last}) - 1)

RECURSIVE Words(_)
\* command.split(" ")
Words(command) ==
    LET spaces == {i \in 1..Len(command) : command[i] = " "}
    IN  IF spaces = {} THEN <<command>>
        ELSE LET first == CHOOSE i \in spaces : \A j \in spaces : i <= j
             IN  <<SubSeq(command, 1, first - 1)>>
                     \o Words(SubSeq(command, first + 1, Len(command)))

HasWord(command, word) == \E i \in 1..Len(Words(command)) : Words(command)[i] = <<word>>

\* C11: a storage URL that points at a file is rewritten to prefix/filename
\* and gets exactly one mount spec: the file itself at prefix/filename when
\* files are mounted, its parent directory at prefix/ when they are not; a
\* storage URL without a filename is mounted at prefix/ and rewritten to that
\* mount point.
C11_StorageMapping ==
    Mapped("_map_singe_url_into_volume") /\ UrlTypeOf(mp_call.url) = STORAGE =>
        LET url == mp_call.url
            prefix == mp_call.storage_mount_prefix
            filename == get_filename_from_url(url)
            spec == mp_out.volumes[1]
        IN  /\ Len(mp_out.volumes) = 1
            /\ ModeOf(spec) = mp_call.mount_mode
            /\ IF filename # NoName
               THEN /\ mp_out.new_url = prefix \o <<"/">> \o filename
                    /\ IF mp_call.mount_files
                       THEN /\ LocatorOf(spec) = url
                            /\ MountPointOf(spec) = prefix \o <<"/">> \o filename
                       ELSE /\ LocatorOf(spec) \o filename = url
                            /\ MountPointOf(spec) = prefix \o <<"/">>
               ELSE /\ LocatorOf(spec) = url
                    /\ MountPointOf(spec) = prefix \o <<"/">>
                    /\ mp_out.new_url = MountPointOf(spec)

\* C11 witness: a storage file was mapped as a destination, its directory
\* mounted and its path rewritten to the file below the prefix.
C11_Witness ==
    /\ Mapped("_map_singe_url_into_volume")
    /\ mp_call.url = <<"storage", ":", "//cluster", "/", "proj", "/", "file.tar">>
    /\ ~mp_call.mount_files
    /\ mp_out.new_url = <<"/var/storage/destination", "/", "file.tar">>
    /\ mp_out.volumes = << <<"storage", ":", "//cluster", "/", "proj", "/", ":",
                             "/var/storage/destination", "/", ":", "rw">> >>

\* C12: a CLOUD or OTHER URL gets no mount spec and is returned unchanged; a
\* transfer from a storage file to a cloud URL derives exactly one mount, the
\* source's, and the worker command ends with the cloud URL as given.
C12_CloudPassesThrough ==
    /\ Mapped("_map_singe_url_into_volume")
         /\ UrlTypeOf(mp_call.url) \in {CLOUD, LOCAL_OR_OTHER} =>
           mp_out.volumes = <<>> /\ mp_out.new_url = mp_call.url
    /\ Mapped("RemoteJobConfig.create")
         /\ UrlTypeOf(mp_call.source) = STORAGE
         /\ get_filename_from_url(mp_call.source) # NoName
         /\ UrlTypeOf(mp_call.destination) = CLOUD =>
           /\ Len(mp_out.data_mounts) = 1
           /\ LocatorOf(mp_out.data_mounts[1]) = mp_call.source
           /\ MountPointOf(mp_out.data_mounts[1]) =
                  source_storage_mount_prefix \o <<"/">> \o get_filename_from_url(mp_call.source)
           /\ Words(mp_out.command)[Len(Words(mp_out.command))] = mp_call.destination

\* C12 witness: a job config was created for storage file -> gs URL.
C12_Witness ==
    /\ Mapped("RemoteJobConfig.create")
    /\ mp_call.source = <<"storage", ":", "//cluster", "/", "proj", "/", "file.tar">>
    /\ mp_call.destination = <<"gs", ":", "//bucket", "/", "data", "/", "file.tar">>
    /\ Len(mp_out.data_mounts) = 1
    /\ Len(mp_out.volumes) = 2

\* C13: a DISK URL gets exactly one mount spec locator:mountpoint:mode that
\* mounts scheme:diskId at diskMountPrefix/; it is rewritten to
\* diskMountPrefix followed by the path on the disk when one was given, and
\* to the mount point otherwise.
C13_DiskMapping ==
    Mapped("_map_singe_url_into_volume") /\ UrlTypeOf(mp_call.url) = DISK =>
        LET parsed == parse_resource_spec(mp_call.url)
            prefix == mp_call.disk_mount_prefix
            spec == mp_out.volumes[1]
        IN  /\ Len(mp_out.volumes) = 1
            /\ Cardinality(Colons(spec)) = 3
            /\ LocatorOf(spec) = parsed.schema \o <<":">> \o parsed.disk_id
            /\ MountPointOf(spec) = prefix \o <<"/">>
            /\ ModeOf(spec) = mp_call.mount_mode
            /\ mp_out.new_url = IF parsed.path_on_disk # NoPath
                                THEN prefix \o parsed.path_on_disk
                                ELSE prefix \o <<"/">>

\* C13 witness: a disk URL with a path on the disk was mapped as a source.
C13_Witness ==
    /\ Mapped("_map_singe_url_into_volume")
    /\ mp_call.url = <<"disk", ":", "disk-1", "/", "data", "/", "file.tar">>
    /\ mp_out.new_url = <<"/var/disk/source", "/", "data", "/", "file.tar">>
    /\ mp_out.volumes = << <<"disk", ":", "disk-1", ":", "/var/disk/source", "/", ":", "rw">> >>

\* C14: mapping a pair maps the source with files mounted under the source
\* prefixes and the destination with directories mounted under the
\* destination prefixes, returns the source's mount specs followed by the
\* destination's, and no mount point of the source equals one of the
\* destination.
C14_PairMappedApart ==
    Mapped("_map_into_volumes") =>
        LET s == _map_singe_url_into_volume(mp_call.source, <<"/var/storage/source">>,
                                            <<"/var/disk/source">>, TRUE, <<"rw">>)
            d == _map_singe_url_into_volume(mp_call.destination, <<"/var/storage/destination">>,
                                            <<"/var/disk/destination">>, FALSE, <<"rw">>)
            n == Len(s.volumes)
        IN  /\ mp_out.new_source = s.new_url
            /\ mp_out.new_destination = d.new_url
            /\ mp_out.volumes = s.volumes \o d.volumes
            /\ \A i \in 1..n, j \in (n + 1)..Len(mp_out.volumes) :
                   MountPointOf(mp_out.volumes[i]) # MountPointOf(mp_out.volumes[j])

\* C14 witness: a storage directory was mapped to a storage file, both
\* mounted as directories.
C14_Witness ==
    /\ Mapped("_map_into_volumes")
    /\ mp_call.source = <<"storage", ":", "//cluster", "/", "proj", "/">>
    /\ mp_call.destination = <<"storage", ":", "//cluster", "/", "proj", "/", "file.tar">>
    /\ Len(mp_out.volumes) = 2
    /\ MountPointOf(mp_out.volumes[1]) = <<"/var/storage/source", "/">>
    /\ MountPointOf(mp_out.volumes[2]) = <<"/var/storage/destination", "/">>

\* C15: the worker command is neuro-extras data cp, then -c exactly when
\* compression was requested, then -x exactly when extraction was requested,
\* then the source path and the destination path; a job config's command is
\* built over the two rewritten paths.
C15_CommandShape ==
    /\ Mapped("_build_data_copy_command") =>
           LET words == Words(mp_out.command)
               flags == SubSeq(words, 4, Len(words) - 2)
           IN  /\ SubSeq(words, 1, 3) = <<(<<"neuro-extras">>), (<<"data">>), (<<"cp">>)>>
               /\ SubSeq(words, Len(words) - 1, Len(words)) = <<mp_call.source, mp_call.destination>>
               /\ HasWord(mp_out.command, "-c") <=> mp_call.compress
               /\ HasWord(mp_out.command, "-x") <=> mp_call.extract
               /\ Len(flags) = (IF mp_call.compress THEN 1 ELSE 0) + (IF mp_call.extract THEN 1 ELSE 0)
               /\ \A i \in 1..Len(flags) : flags[i] \in {<<"-c">>, <<"-x">>}
    /\ Mapped("RemoteJobConfig.create") =>
           LET words == Words(mp_out.command)
               mapped == _map_into_volumes(mp_call.source, mp_call.destination)
           IN  /\ SubSeq(words, Len(words) - 1, Len(words)) = <<mapped.new_source, mapped.new_destination>>
               /\ HasWord(mp_out.command, "-c") <=> mp_call.compress
               /\ HasWord(mp_out.command, "-x") <=> mp_call.extract

\* C15 witness: a command was built with compression and without extraction.
C15_Witness ==
    /\ Mapped("_build_data_copy_command")
    /\ mp_call.compress /\ ~mp_call.extract
    /\ mp_out.command = <<"neuro-extras", " ", "data", " ", "cp", " ", "-c", " ",
                          "/var/storage/source", "/", "file.tar", " ",
                          "gs", ":", "//bucket", "/", "file.tar">>

(***************************************************************************)
(* Claims about the life of a job config.                                  *)
(***************************************************************************)
\* C16 as stated: over any sequence of operations on one copier the scheduler
\* receives at most one submission of its job config.
C16_AtMostOneSubmission == Len(submissions) <= 1

\* C16 (amended): every submission is made by the step that starts a
\* perform_copy call and hands over the copier's job config once; no step
\* inside a call, and no step that ends a call in failure, submits again; the
\* job config never changes once it is built.
C16_OneSubmissionPerCall ==
    [][/\ submissions' # submissions =>
            /\ cp_pc \in {"CREATED", "COMPLETED", "FAILED"}
            /\ cp_pc' = "SUBMITTED"
            /\ submissions' = Append(submissions, job_config)
       /\ cp_pc' = "FAILED" => submissions' = submissions
       /\ job_config # NoConfig => job_config' = job_config
       /\ \A i \in 1..Len(submissions') : submissions'[i] = job_config']_vars

\* C16 witness: after a failed job perform_copy was called again and the
\* same job config reached the scheduler a second time; its job failed too.
C16_Witness ==
    /\ Len(submissions) = 2
    /\ submissions[1] = job_config /\ submissions[2] = job_config
    /\ cp_pc = "FAILED" /\ cp_error.kind = "RuntimeError"

(***************************************************************************)
(* Claims about the order of an extraction.                                *)
(***************************************************************************)
\* The positions of an event in the log.
At(e) == {i \in DOMAIN ar_log : ar_log[i] = e}
\* Event a is logged, once, and only before every occurrence of event b.
Precedes(a, b) == Cardinality(At(a)) = 1 /\ \A i \in At(a), j \in At(b) : i < j

UnpackEvents == {"run:tar", "run:unzip"}
Unpacking == \E e \in UnpackEvents : At(e) # {}

\* C17: when extract with the tar or zip strategy starts the unpack tool,
\* the destination directory has been made before, after the strategy's type
\* validation; through the entry point, classification, selection and
\* validation have happened before in that order.
C17_EnsuredBeforeUnpack ==
    Called /\ ar_req.op = "extract" /\ ar_mgr \in {"tar", "zip"} /\ Unpacking =>
        \A e \in UnpackEvents : At(e) # {} =>
            /\ Cardinality(At(e)) = 1
            /\ Precedes("validate", "mkdir")
            /\ Precedes("mkdir", e)
            /\ ar_req.via = "entry" =>
                  /\ Precedes("ensure_folder", e)
                  /\ Precedes("classify", "select")
                  /\ Precedes("select", "validate")

\* C17 witness: an archive named .zip was extracted through the entry point
\* into a directory named .zip, and unzip was started.
C17_Witness ==
    /\ ViaEntry("extract") /\ ar_mgr = "zip"
    /\ ar_log = <<"ensure_folder", "classify", "select", "validate", "mkdir", "run:unzip">>

(***************************************************************************)
(* Claims about the outcome of following an image build.                   *)
(***************************************************************************)
\* C18: _build_image reports the image as built only when the last status it
\* read is SUCCEEDED; a job that ends CANCELLED, or that is still RUNNING at
\* the last read and fails later, is never reported as built.
C18_BuiltOnlyWhenSucceeded == bi_pc = "built" => bi_job.status = "SUCCEEDED"

\* C19: a job whose final status is FAILED ends the process with the job's
\* recorded exit code, or with the platform-error code when none is recorded;
\* that exit status is never zero, a FAILED job is never reported as built,
\* and the log stream is attached only once the job is seen out of PENDING.
C19_FailedExitsNonZero ==
    /\ bi_pc = "exited" =>
          /\ bi_job.status = "FAILED"
          /\ bi_exit = (IF bi_job.exit_code = NoCode THEN 81 ELSE bi_job.exit_code)
          /\ bi_exit # 0
    /\ bi_pc = "built" => bi_job.status # "FAILED" /\ bi_exit = NoCode
    /\ bi_pc = "monitor" => bi_job.status # "PENDING"
    /\ bi_echoed > 0 => bi_job.status # "PENDING"

\* C19 witness: the job failed with no exit code recorded, after its log was
\* followed, and the process exited with the platform-error code.
C19_Witness ==
    /\ bi_pc = "exited" /\ bi_job.status = "FAILED" /\ bi_job.exit_code = NoCode
    /\ bi_echoed > 0 /\ bi_exit = 81

====
